---------------------------- MODULE Spec2Model ----------------------------
(***************************************************************************)
(* Slotted-page heap file of src/tp2.py (the same code is repeated in      *)
(* src/alltp.py): the page format, the file-level heap functions and       *)
(* insert_record / get_all_raw_records.                                    *)
(*                                                                         *)
(* Bytes are numbers 0..255.  A Python bytes object b is the sequence of   *)
(* its bytes: Python's b[i] is b[i+1] here, len(b) is Len(b).  A page is a *)
(* sequence of PAGE_SIZE bytes and the heap file is the sequence of all    *)
(* its bytes, so that sizes, offsets and overwrites are computed as the    *)
(* code computes them.                                                     *)
(***************************************************************************)
EXTENDS Integers, Sequences, FiniteSets, TLC

\* ------------------------------------------------------------------------
\* Constants (src/tp2.py:27-29)
\* ------------------------------------------------------------------------
PAGE_SIZE == 4096
FOOTER_SIZE == 4
SLOT_ENTRY_SIZE == 4

\* ------------------------------------------------------------------------
\* Bounds of the model
\* ------------------------------------------------------------------------
\* calls made on the heap file in one behaviour
MaxOps == 4
\* insert_record_into_page calls made on the stand-alone page image
MaxPageOps == 4
\* calls made on the heap file when write_page and append_page are among them
MaxFileOps == 4
\* insert_record calls each concurrent writer makes
MaxWriterInserts == 1

\* ------------------------------------------------------------------------
\* Python bytes primitives
\* ------------------------------------------------------------------------
Min(a, b) == IF a < b THEN a ELSE b

Max(a, b) == IF a > b THEN a ELSE b

\* b[lo:hi] for 0 <= lo, 0 <= hi: clamped to the object, empty when hi <= lo
Slice(b, lo, hi) == SubSeq(b, Min(lo, Len(b)) + 1, Min(hi, Len(b)))

\* bytearray slice assignment b[lo:hi] = data (0 <= lo <= hi): the slice is
\* replaced by data, whatever the two lengths are
SliceAssign(b, lo, hi, data) ==
    Slice(b, 0, lo) \o data \o Slice(b, Max(lo, hi), Len(b))

\* bytearray(n) / b'\x00' * n
Zeros(n) == [i \in 1..n |-> 0]

\* struct.pack(">H", v): two bytes, most significant first
PackU16(v) == << v \div 256, v % 256 >>

\* struct.unpack(">H", b)[0] of a two-byte object
UnpackU16(b) == b[1] * 256 + b[2]

\* ------------------------------------------------------------------------
\* Heap page helpers (src/tp2.py:82-136)
\* ------------------------------------------------------------------------
\* _read_footer: (slot_count, free_offset); the length check raises ValueError
_read_footer(page) ==
    IF Len(page) # PAGE_SIZE
    THEN [err |-> "ValueError", slot_count |-> 0, free_offset |-> 0]
    ELSE [err |-> "ok",
          slot_count |-> UnpackU16(Slice(page, PAGE_SIZE - FOOTER_SIZE, PAGE_SIZE - 2)),
          free_offset |-> UnpackU16(Slice(page, PAGE_SIZE - 2, PAGE_SIZE))]

\* mutant: the footer keeps its old free_offset, only slot_count is written
_write_footer_stale_offset(page, slot_count, free_offset) ==
    SliceAssign(page, PAGE_SIZE - FOOTER_SIZE, PAGE_SIZE - 2, PackU16(slot_count))

_write_footer(page, slot_count, free_offset) ==
    LET p1 == SliceAssign(page, PAGE_SIZE - FOOTER_SIZE, PAGE_SIZE - 2, PackU16(slot_count))
    IN  SliceAssign(p1, PAGE_SIZE - 2, PAGE_SIZE, PackU16(free_offset))

\* mutant: the slot directory counted from the footer's first byte, not below it
_slot_pos_overlapping_footer(slot_index) ==
    PAGE_SIZE - FOOTER_SIZE - slot_index * SLOT_ENTRY_SIZE

_slot_pos(slot_index) == PAGE_SIZE - FOOTER_SIZE - (slot_index + 1) * SLOT_ENTRY_SIZE

\* mutant: slot_index = slot_count passes the range check
_read_slot_inclusive(page, slot_index, slot_count) ==
    IF slot_index < 0 \/ slot_index > slot_count
    THEN [err |-> "IndexError", offset |-> 0, length |-> 0]
    ELSE LET pos == PAGE_SIZE - FOOTER_SIZE - (slot_index + 1) * SLOT_ENTRY_SIZE
         IN  [err |-> "ok",
              offset |-> UnpackU16(Slice(page, pos, pos + 2)),
              length |-> UnpackU16(Slice(page, pos + 2, pos + 4))]

\* _read_slot: (offset, length), IndexError when slot_index is out of range
_read_slot(page, slot_index, slot_count) ==
    IF slot_index < 0 \/ slot_index >= slot_count
    THEN [err |-> "IndexError", offset |-> 0, length |-> 0]
    ELSE LET pos == _slot_pos(slot_index)
         IN  [err |-> "ok",
              offset |-> UnpackU16(Slice(page, pos, pos + 2)),
              length |-> UnpackU16(Slice(page, pos + 2, pos + 4))]

\* mutant: the slot entry written as (length, offset)
_write_slot_swapped(page, slot_index, offset, length) ==
    LET pos == PAGE_SIZE - FOOTER_SIZE - (slot_index + 1) * SLOT_ENTRY_SIZE
        p1 == SliceAssign(page, pos, pos + 2, PackU16(length))
    IN  SliceAssign(p1, pos + 2, pos + 4, PackU16(offset))

_write_slot(page, slot_index, offset, length) ==
    LET pos == _slot_pos(slot_index)
        p1 == SliceAssign(page, pos, pos + 2, PackU16(offset))
    IN  SliceAssign(p1, pos + 2, pos + 4, PackU16(length))

initialize_empty_page == _write_footer(Zeros(PAGE_SIZE), 0, 0)

\* mutant: the footer's four bytes counted as free space
free_space_in_page_no_footer(page) ==
    LET sc == UnpackU16(Slice(page, PAGE_SIZE - FOOTER_SIZE, PAGE_SIZE - 2))
        fo == UnpackU16(Slice(page, PAGE_SIZE - 2, PAGE_SIZE))
    IN  PAGE_SIZE - sc * SLOT_ENTRY_SIZE - fo

free_space_in_page(page) ==
    LET ft == _read_footer(page)
        slot_table_start == PAGE_SIZE - FOOTER_SIZE - ft.slot_count * SLOT_ENTRY_SIZE
    IN  slot_table_start - ft.free_offset

\* mutant: free_offset is not advanced past the record
insert_record_into_page_no_advance(page, record) ==
    LET ft == _read_footer(page)
        needed == Len(record) + SLOT_ENTRY_SIZE
    IN  IF ft.err # "ok" \/ free_space_in_page(page) < needed
        THEN [err |-> "ValueError", input |-> page, image |-> << >>, slot |-> -1]
        ELSE LET rec_off == ft.free_offset
                 pg1 == SliceAssign(page, rec_off, rec_off + Len(record), record)
                 pg2 == _write_slot(pg1, ft.slot_count, rec_off, Len(record))
                 pg3 == _write_footer(pg2, ft.slot_count + 1, ft.free_offset)
             IN  [err |-> "ok", input |-> page, image |-> pg3, slot |-> ft.slot_count]

\* mutant: the room for the new slot entry is not asked for
insert_record_into_page_no_slot_room(page, record) ==
    LET ft == _read_footer(page)
        needed == Len(record)
    IN  IF ft.err # "ok" \/ free_space_in_page(page) < needed
        THEN [err |-> "ValueError", input |-> page, image |-> << >>, slot |-> -1]
        ELSE LET rec_off == ft.free_offset
                 pg1 == SliceAssign(page, rec_off, rec_off + Len(record), record)
                 pg2 == _write_slot(pg1, ft.slot_count, rec_off, Len(record))
                 pg3 == _write_footer(pg2, ft.slot_count + 1, ft.free_offset + Len(record))
             IN  [err |-> "ok", input |-> page, image |-> pg3, slot |-> ft.slot_count]

\* mutant: the record is written into the caller's page, with no copy made
insert_record_into_page_in_place(page, record) ==
    LET ft == _read_footer(page)
        needed == Len(record) + SLOT_ENTRY_SIZE
    IN  IF ft.err # "ok" \/ free_space_in_page(page) < needed
        THEN [err |-> "ValueError", input |-> page, image |-> << >>, slot |-> -1]
        ELSE LET rec_off == ft.free_offset
                 pg1 == SliceAssign(page, rec_off, rec_off + Len(record), record)
                 pg2 == _write_slot(pg1, ft.slot_count, rec_off, Len(record))
                 pg3 == _write_footer(pg2, ft.slot_count + 1, ft.free_offset + Len(record))
             IN  [err |-> "ok", input |-> pg3, image |-> pg3, slot |-> ft.slot_count]

\* insert_record_into_page(page, record).  err is "ValueError" when the page
\* has no room; otherwise image is the returned page and slot the returned
\* slot index.  input is the caller's page object as it is after the call:
\* the code works on the copy bytearray(page), so it is the argument itself.
insert_record_into_page(page, record) ==
    LET ft == _read_footer(page)
        needed == Len(record) + SLOT_ENTRY_SIZE
    IN  IF ft.err # "ok" \/ free_space_in_page(page) < needed
        THEN [err |-> "ValueError", input |-> page, image |-> << >>, slot |-> -1]
        ELSE LET rec_off == ft.free_offset
                 pg1 == SliceAssign(page, rec_off, rec_off + Len(record), record)
                 new_slot == ft.slot_count
                 pg2 == _write_slot(pg1, new_slot, rec_off, Len(record))
                 pg3 == _write_footer(pg2, ft.slot_count + 1, ft.free_offset + Len(record))
             IN  [err |-> "ok", input |-> page, image |-> pg3, slot |-> new_slot]

get_record_from_page(page, slot_index) ==
    LET ft == _read_footer(page)
        sl == _read_slot(page, slot_index, ft.slot_count)
    IN  IF ft.err # "ok" THEN [err |-> ft.err, rec |-> << >>]
        ELSE IF sl.err # "ok" THEN [err |-> sl.err, rec |-> << >>]
        ELSE [err |-> "ok", rec |-> Slice(page, sl.offset, sl.offset + sl.length)]

\* ------------------------------------------------------------------------
\* File-level heap functions (src/tp2.py:141-199)
\* A file is [exists, data]: whether the path exists and the bytes it holds.
\* ------------------------------------------------------------------------
AbsentFile == [exists |-> FALSE, data |-> << >>]

EmptyFile == [exists |-> TRUE, data |-> << >>]

\* os.path.getsize of an existing file
getsize(f) == Len(f.data)

\* open(fname, "wb") truncates or creates, then one empty page is written
create_heap_file(f) == [exists |-> TRUE, data |-> initialize_empty_page]

\* read_page: open "rb" fails on a missing path; a short read raises IOError
read_page(f, page_num) ==
    IF ~f.exists THEN [err |-> "FileNotFoundError", data |-> << >>]
    ELSE LET data == Slice(f.data, page_num * PAGE_SIZE, page_num * PAGE_SIZE + PAGE_SIZE)
         IN  IF Len(data) # PAGE_SIZE
             THEN [err |-> "IOError", data |-> << >>]
             ELSE [err |-> "ok", data |-> data]

\* write_page: the length check comes first, then open "r+b" (fails on a
\* missing path), seek and write; a seek past the end leaves a zero-filled gap
write_page(f, page_num, page_data) ==
    IF Len(page_data) # PAGE_SIZE THEN [err |-> "ValueError", file |-> f]
    ELSE IF ~f.exists THEN [err |-> "FileNotFoundError", file |-> f]
    ELSE LET pos == page_num * PAGE_SIZE
             padded == IF pos > Len(f.data)
                       THEN f.data \o Zeros(pos - Len(f.data))
                       ELSE f.data
         IN  [err |-> "ok",
              file |-> [exists |-> TRUE,
                        data |-> SliceAssign(padded, pos, pos + Len(page_data), page_data)]]

\* mutant: the length of page_data is not checked
append_page_unchecked(f, page_data) ==
    [err |-> "ok", file |-> [exists |-> TRUE, data |-> f.data \o page_data]]

\* mutant: the file is opened "wb", which truncates it, instead of "ab"
append_page_truncating(f, page_data) ==
    IF Len(page_data) # PAGE_SIZE THEN [err |-> "ValueError", file |-> f]
    ELSE [err |-> "ok", file |-> [exists |-> TRUE, data |-> page_data]]

\* append_page: open "ab" creates a missing file and writes at its end
append_page(f, page_data) ==
    IF Len(page_data) # PAGE_SIZE THEN [err |-> "ValueError", file |-> f]
    ELSE [err |-> "ok", file |-> [exists |-> TRUE, data |-> f.data \o page_data]]

\* mutant: the file is created again on every call
insert_begin_always_create(f) ==
    LET f1 == create_heap_file(f)
    IN  [file |-> f1, num_pages |-> getsize(f1) \div PAGE_SIZE]

\* insert_record, lines 167-170: lazy creation, then the page count
insert_begin(f) ==
    LET f1 == IF ~f.exists \/ getsize(f) = 0 THEN create_heap_file(f) ELSE f
    IN  [file |-> f1, num_pages |-> getsize(f1) \div PAGE_SIZE]

\* insert_record, lines 179-183: the record goes into a fresh page that is
\* appended; a ValueError of insert_record_into_page is not caught here
insert_append(f, record, num_pages) ==
    LET r == insert_record_into_page(initialize_empty_page, record)
    IN  IF r.err # "ok"
        THEN [err |-> r.err, file |-> f, page |-> -1, slot |-> -1]
        ELSE LET a == append_page(f, r.image)
             IN  IF a.err # "ok"
                 THEN [err |-> a.err, file |-> f, page |-> -1, slot |-> -1]
                 ELSE [err |-> "ok", file |-> a.file, page |-> num_pages, slot |-> r.slot]

\* mutant: no existing page is tried, every record gets a new page
insert_scan_append_only(f, record, p, num_pages) ==
    insert_append(f, record, num_pages)

\* insert_record, lines 171-178, from page p on: the first page whose
\* insert_record_into_page succeeds is written back; ValueError (of the page
\* insert or of write_page) moves on to the next page, any other error leaves
\* the call; after the last page the append of lines 179-183 follows
RECURSIVE insert_scan(_, _, _, _)
insert_scan(f, record, p, num_pages) ==
    IF p >= num_pages THEN insert_append(f, record, num_pages)
    ELSE LET pg == read_page(f, p)
         IN  IF pg.err # "ok"
             THEN [err |-> pg.err, file |-> f, page |-> -1, slot |-> -1]
             ELSE LET r == insert_record_into_page(pg.data, record)
                      w == write_page(f, p, r.image)
                  IN  IF r.err = "ok" /\ w.err = "ok"
                      THEN [err |-> "ok", file |-> w.file, page |-> p, slot |-> r.slot]
                      ELSE IF r.err = "ok" /\ w.err # "ValueError"
                      THEN [err |-> w.err, file |-> f, page |-> -1, slot |-> -1]
                      ELSE insert_scan(f, record, p + 1, num_pages)

\* insert_record(fname, record): [err, file, page, slot] where file is the
\* file after the call and (page, slot) the returned address when err = "ok"
insert_record(f, record) ==
    LET b == insert_begin(f)
    IN  insert_scan(b.file, record, 0, b.num_pages)

RECURSIVE scan_slots(_, _, _, _)
scan_slots(page, p, si, slot_count) ==
    IF si >= slot_count THEN << >>
    ELSE << << p, si, get_record_from_page(page, si).rec >> >>
         \o scan_slots(page, p, si + 1, slot_count)

RECURSIVE scan_pages(_, _, _)
scan_pages(f, p, num_pages) ==
    IF p >= num_pages THEN << >>
    ELSE LET page == read_page(f, p).data
         IN  scan_slots(page, p, 0, _read_footer(page).slot_count)
             \o scan_pages(f, p + 1, num_pages)

\* get_all_raw_records(fname): the list of (page, slot, record); every file
\* of the model is a whole number of pages, so no read_page of the loop fails
get_all_raw_records(f) ==
    IF ~f.exists THEN << >>
    ELSE IF getsize(f) = 0 THEN << >>
    ELSE scan_pages(f, 0, getsize(f) \div PAGE_SIZE)

\* ------------------------------------------------------------------------
\* State
\* ------------------------------------------------------------------------
VARIABLES
    file,     \* the heap file: [exists, data]
    last,     \* the last call made on the heap file and what it returned
    hist,     \* the (record, page, slot) of every insert_record that returned
    nops,     \* calls made on the heap file
    pg,       \* a stand-alone page image held by a caller of the page format
    pgLast,   \* the last insert_record_into_page call on pg and its result
    pgOps,    \* insert_record_into_page calls made on pg
    pgHist,   \* the records insert_record_into_page placed in pg, in call order
    pgGot,    \* the last get_record_from_page call on pg and its result
    excl,     \* whether the callers hold a lock of their own around insert_record
    wr,       \* per writer: where its insert_record call stands, and its locals
    cin,      \* the (record_dict, table_name) last given to encode_record
    cenc,     \* what that encode_record call returned
    cdec,     \* the last decode_record call for that table and what it returned
    tfiles,   \* the heap files of the schema's tables, by file name
    tlast,    \* the last call of the structured file operations and its result
    tops      \* calls of the structured file operations made

vars == << file, last, hist, nops, pg, pgLast, pgOps, pgHist, pgGot, excl, wr,
          cin, cenc, cdec, tfiles, tlast, tops >>

heapVars == << file, last, hist, nops >>

pageVars == << pg, pgLast, pgOps, pgHist, pgGot >>

writerVars == << excl, wr >>

codecVars == << cin, cenc, cdec >>

tableVars == << tfiles, tlast, tops >>

recordVars == << codecVars, tableVars >>

\* ------------------------------------------------------------------------
\* Inputs
\* ------------------------------------------------------------------------
\* a record of len bytes, all equal to b
Rec(len, b) == [i \in 1..len |-> b]

\* the empty record, two 20-byte records, a record of which two fill a page
\* exactly (2 * (2042 + 4) = 4092), the longest record a page holds
\* (4088 + 4 = 4092) and a record one byte longer than that
Records ==
    { << >>, Rec(20, 65), Rec(20, 66), Rec(2042, 67), Rec(4088, 68), Rec(4089, 69) }

NoCall == [op |-> "none", err |-> "ok", rec |-> << >>, page |-> -1, slot |-> -1,
           num_pages |-> 0]

NoPageCall == [err |-> "none", rec |-> << >>, slot |-> -1, input |-> << >>]

NoGet == [called |-> FALSE, slot_index |-> 0, err |-> "none", rec |-> << >>]

InitHeap ==
    /\ last = NoCall
    /\ hist = << >>
    /\ nops = 0

InitPage ==
    /\ pg = initialize_empty_page
    /\ pgLast = NoPageCall
    /\ pgOps = 0
    /\ pgHist = << >>
    /\ pgGot = NoGet

NoInput == [called |-> FALSE, record_dict |-> << >>, table_name |-> << >>]

NoEncode == [err |-> "none", b |-> << >>]

NoDecode == [called |-> FALSE, record_bytes |-> << >>, err |-> "none", res |-> << >>]

InitCodec ==
    /\ cin = NoInput
    /\ cenc = NoEncode
    /\ cdec = NoDecode

NoTableCall ==
    [op |-> "none", table_name |-> << >>, err |-> "none", out |-> << >>, again |-> FALSE]

\* no table has a heap file under watch
InitNoTable ==
    /\ tfiles = << >>
    /\ tlast = NoTableCall
    /\ tops = 0

Writers == { 1, 2 }

Idle == [pc |-> "idle", rec |-> << >>, num_pages |-> 0, p |-> 0,
         new_page |-> << >>, slot |-> -1, calls |-> 0]

\* no concurrent writer is at work
InitNoWriters ==
    /\ excl = TRUE
    /\ wr = [w \in Writers |-> Idle]

\* ------------------------------------------------------------------------
\* Operations on the heap file
\* ------------------------------------------------------------------------
\* a call insert_record(fname, record)
InsertRecord(record) ==
    /\ LET r == insert_record(file, record)
       IN  /\ file' = r.file
           /\ last' = [op |-> "insert_record", err |-> r.err, rec |-> record,
                       page |-> r.page, slot |-> r.slot,
                       num_pages |-> insert_begin(file).num_pages]
           /\ hist' = IF r.err = "ok"
                      THEN Append(hist, [rec |-> record, page |-> r.page, slot |-> r.slot])
                      ELSE hist
    /\ nops' = nops + 1
    /\ UNCHANGED << pageVars, writerVars, recordVars >>

\* ------------------------------------------------------------------------
\* The heap file under insert_record alone, from an absent or empty file
\* ------------------------------------------------------------------------
Init ==
    /\ file \in { AbsentFile, EmptyFile }
    /\ InitHeap
    /\ InitPage
    /\ InitCodec
    /\ InitNoTable
    /\ InitNoWriters

Next == nops < MaxOps /\ \E record \in Records : InsertRecord(record)

Spec == Init /\ [][Next]_vars

NumPages == getsize(file) \div PAGE_SIZE

\* page p of the heap file
PageOf(p) == read_page(file, p).data

\* the most record bytes one page can hold: one record and its slot entry
PageCapacity == PAGE_SIZE - FOOTER_SIZE - SLOT_ENTRY_SIZE

RECURSIVE TotalBytes(_)
TotalBytes(h) == IF h = << >> THEN 0 ELSE Len(Head(h).rec) + TotalBytes(Tail(h))

\* (page, slot) addresses strictly ascending: by page, then by slot
AscendingAddresses(S) ==
    \A i, j \in 1..Len(S) :
        i < j => \/ S[i][1] < S[j][1]
                 \/ (S[i][1] = S[j][1] /\ S[i][2] < S[j][2])

\* ------------------------------------------------------------------------
\* C1: after any sequence of insert_record calls get_all_raw_records returns
\* exactly the inserted records, as many times as each was inserted, each at
\* the (page, slot) its insert returned, in ascending page and then slot
\* order, and the file holds at least ceil(total bytes / page capacity) pages.
\* ------------------------------------------------------------------------
C1_ScanReturnsInserted ==
    LET S == get_all_raw_records(file)
    IN  /\ Len(S) = Len(hist)
        /\ \A i \in 1..Len(hist) :
               \E j \in 1..Len(S) : S[j] = << hist[i].page, hist[i].slot, hist[i].rec >>
        /\ \A r \in Records :
               Cardinality({ j \in 1..Len(S) : S[j][3] = r })
                   = Cardinality({ i \in 1..Len(hist) : hist[i].rec = r })
        /\ \A j \in 1..Len(S) : S[j][3] \in Records
        /\ AscendingAddresses(S)
        /\ NumPages * PageCapacity >= TotalBytes(hist)

\* three records over two pages, one record stored twice
C1_Witness ==
    /\ Len(hist) >= 3
    /\ NumPages >= 2
    /\ TotalBytes(hist) > PageCapacity
    /\ \E i, j \in 1..Len(hist) : i < j /\ hist[i].rec = hist[j].rec

\* ------------------------------------------------------------------------
\* C2: insert_record is first-fit: the returned page is the smallest existing
\* page whose free space is at least len(record) + 4, and a page is appended
\* (and its index returned) only when no existing page has that much room.
\* ------------------------------------------------------------------------
FittingPages(f, record) ==
    { p \in 0..(getsize(f) \div PAGE_SIZE) - 1 :
        free_space_in_page(read_page(f, p).data) >= Len(record) + SLOT_ENTRY_SIZE }

SetMin(S) == CHOOSE m \in S : \A x \in S : m <= x

C2_Step ==
    (nops' = nops + 1 /\ last'.op = "insert_record" /\ last'.err = "ok") =>
        LET f == insert_begin(file).file
            n == getsize(f) \div PAGE_SIZE
            fits == FittingPages(f, last'.rec)
        IN  IF fits = {}
            THEN last'.page = n /\ NumPages' = n + 1
            ELSE last'.page = SetMin(fits) /\ NumPages' = n

C2_FirstFit == [][C2_Step]_vars

\* page 0 exactly full, page 1 with room: the record went to page 1 and the
\* file still has two pages
C2_Witness ==
    /\ last.op = "insert_record" /\ last.err = "ok"
    /\ last.num_pages = 2 /\ NumPages = 2
    /\ free_space_in_page(PageOf(0)) = 0
    /\ last.page = 1 /\ last.slot >= 1

\* ------------------------------------------------------------------------
\* C4 as stated: insert_record returns an address for every file state and
\* every record.
\* ------------------------------------------------------------------------
C4_NeverSurfaces == last.op = "insert_record" => last.err = "ok"

\* C4 amended: insert_record returns an address for every record of at most
\* 4088 bytes, having skipped the pages without room and appended a page when
\* none has room; a longer record fits no page, and the ValueError of
\* insert_record_into_page on the fresh page leaves insert_record.
C4_SurfacesOnlyOversized ==
    last.op = "insert_record" =>
        /\ last.err = "ok" <=> Len(last.rec) <= PageCapacity
        /\ last.err = "ok" => last.page \in 0..NumPages - 1 /\ last.slot >= 0
        /\ last.err # "ok" => last.err = "ValueError"

\* page 0 had no room for the record, which went to the existing page 1
C4_Witness ==
    /\ last.op = "insert_record" /\ last.err = "ok"
    /\ last.num_pages = 2 /\ last.page = 1
    /\ free_space_in_page(PageOf(0)) < Len(last.rec) + SLOT_ENTRY_SIZE
    /\ Len(last.rec) > 0

SlotCount(page) == _read_footer(page).slot_count

\* the four bytes of slot entry s of a page
SlotEntry(page, s) == Slice(page, _slot_pos(s), _slot_pos(s) + SLOT_ENTRY_SIZE)

\* ------------------------------------------------------------------------
\* C7: physical addresses are stable: the record insert_record returned
\* (p, s) for is what get_record_from_page(read_page(file, p), s) returns
\* after any further inserts; in each page the slots are 0..slot_count-1 in
\* insertion order, slot_count never decreases and no slot entry is rewritten.
\* ------------------------------------------------------------------------
C7_State ==
    /\ \A i \in 1..Len(hist) :
           get_record_from_page(PageOf(hist[i].page), hist[i].slot)
               = [err |-> "ok", rec |-> hist[i].rec]
    /\ \A i \in 1..Len(hist) :
           hist[i].slot = Cardinality({ j \in 1..i - 1 : hist[j].page = hist[i].page })
    /\ \A p \in 0..NumPages - 1 :
           SlotCount(PageOf(p)) = Cardinality({ i \in 1..Len(hist) : hist[i].page = p })

C7_Step ==
    \A p \in 0..NumPages - 1 :
        /\ NumPages' > p
        /\ SlotCount(PageOf(p)') >= SlotCount(PageOf(p))
        /\ \A s \in 0..SlotCount(PageOf(p)) - 1 :
               SlotEntry(PageOf(p)', s) = SlotEntry(PageOf(p), s)

C7_StableAddresses == []C7_State /\ [][C7_Step]_vars

\* the record at (0, 0) has seen a later insert into its page and one into
\* page 1
C7_Witness ==
    /\ Len(hist) >= 3
    /\ hist[1].page = 0 /\ hist[1].slot = 0 /\ Len(hist[1].rec) > 0
    /\ \E j \in 2..Len(hist) : hist[j].page = 0
    /\ \E j \in 2..Len(hist) : hist[j].page = 1

\* ------------------------------------------------------------------------
\* C8 amended: insert_record on an absent or zero-length file first creates
\* exactly one empty page: a first 20-byte record A lands at (0,0), a second
\* 20-byte record B at (0,1) and the scan is [(0,0,A),(0,1,B)]; a following
\* record of at most 4088 bytes whose length + 4 exceeds the free space left
\* in page 0 makes the file grow to two pages and lands at (1,0).
\* ------------------------------------------------------------------------
TwentyThenTwenty ==
    /\ nops = 2 /\ Len(hist) = 2
    /\ Len(hist[1].rec) = 20 /\ Len(hist[2].rec) = 20

C8_State ==
    /\ nops >= 1 => file.exists /\ NumPages >= 1
    /\ nops = 1 => NumPages = 1
    /\ (nops = 1 /\ Len(hist) = 1) => hist[1].page = 0 /\ hist[1].slot = 0
    /\ TwentyThenTwenty =>
           /\ NumPages = 1
           /\ << hist[1].page, hist[1].slot >> = << 0, 0 >>
           /\ << hist[2].page, hist[2].slot >> = << 0, 1 >>
           /\ get_all_raw_records(file)
                  = << << 0, 0, hist[1].rec >>, << 0, 1, hist[2].rec >> >>

C8_Step ==
    ( /\ TwentyThenTwenty
      /\ nops' = 3 /\ last'.op = "insert_record" /\ Len(last'.rec) <= PageCapacity
      /\ Len(last'.rec) + SLOT_ENTRY_SIZE > free_space_in_page(PageOf(0)) )
    => (last'.err = "ok" /\ last'.page = 1 /\ last'.slot = 0 /\ NumPages' = 2)

C8_LazyCreationScenario == []C8_State /\ [][C8_Step]_vars

\* C8 as stated: every following record whose length + 4 exceeds the free
\* space left in page 0 lands at (1,0) in a file grown to two pages.
C8_StepAnyRecord ==
    ( /\ TwentyThenTwenty
      /\ nops' = 3 /\ last'.op = "insert_record"
      /\ Len(last'.rec) + SLOT_ENTRY_SIZE > free_space_in_page(PageOf(0)) )
    => (last'.err = "ok" /\ last'.page = 1 /\ last'.slot = 0 /\ NumPages' = 2)

C8_AnyLongerRecord == []C8_State /\ [][C8_StepAnyRecord]_vars

\* A and B in page 0, then a record too long for what page 0 has left
C8_Witness ==
    /\ nops = 3 /\ Len(hist) = 3
    /\ Len(hist[1].rec) = 20 /\ Len(hist[2].rec) = 20 /\ hist[1].rec # hist[2].rec
    /\ << hist[3].page, hist[3].slot >> = << 1, 0 >>
    /\ NumPages = 2

\* ------------------------------------------------------------------------
\* The page format alone: insert_record_into_page calls on one page image,
\* from initialize_empty_page
\* ------------------------------------------------------------------------
\* a call insert_record_into_page(pg, record): the caller keeps the returned
\* image as its page when the call succeeds and its own page when it fails
PageInsert(record) ==
    /\ LET r == insert_record_into_page(pg, record)
       IN  /\ pgLast' = [err |-> r.err, rec |-> record, slot |-> r.slot, input |-> r.input]
           /\ pg' = IF r.err = "ok" THEN r.image ELSE r.input
           /\ pgHist' = IF r.err = "ok" THEN Append(pgHist, record) ELSE pgHist
    /\ pgOps' = pgOps + 1
    /\ pgGot' = NoGet
    /\ UNCHANGED << heapVars, writerVars, recordVars >>

InitPageOnly ==
    /\ file = AbsentFile
    /\ InitHeap
    /\ InitPage
    /\ InitCodec
    /\ InitNoTable
    /\ InitNoWriters

NextPage == pgOps < MaxPageOps /\ \E record \in Records : PageInsert(record)

SpecPage == InitPageOnly /\ [][NextPage]_vars

FreeOffset(page) == _read_footer(page).free_offset

\* ------------------------------------------------------------------------
\* C5: insert_record_into_page fails with the capacity error exactly when
\* free_space_in_page(page) < len(record) + 4, and then, as when it succeeds,
\* the input page image is left byte for byte as it was.
\* ------------------------------------------------------------------------
C5_Step ==
    pgOps' = pgOps + 1 =>
        /\ pgLast'.err \in { "ok", "ValueError" }
        /\ pgLast'.err = "ValueError"
               <=> free_space_in_page(pg) < Len(pgLast'.rec) + SLOT_ENTRY_SIZE
        /\ pgLast'.input = pg
        /\ pgLast'.err = "ValueError" => pg' = pg

C5_CapacityErrorLeavesInput == [][C5_Step]_vars

\* a failed insert into a page that holds records and still has some room
C5_Witness ==
    /\ pgLast.err = "ValueError"
    /\ SlotCount(pg) >= 1
    /\ free_space_in_page(pg) > 0
    /\ pgLast.input = pg

\* ------------------------------------------------------------------------
\* C6: a successful insert_record_into_page on a page with footer (c, f)
\* returns slot c and an image with the record at [f, f+len), slot c equal to
\* (f, len), footer (c+1, f+len), the earlier slot entries and record bytes
\* unchanged, and free_space_in_page smaller by exactly len + 4.
\* ------------------------------------------------------------------------
C6_Step ==
    (pgOps' = pgOps + 1 /\ pgLast'.err = "ok") =>
        LET c == SlotCount(pg)
            f == FreeOffset(pg)
            n == Len(pgLast'.rec)
        IN  /\ pgLast'.slot = c
            /\ Len(pg') = PAGE_SIZE
            /\ Slice(pg', f, f + n) = pgLast'.rec
            /\ _read_slot(pg', c, c + 1) = [err |-> "ok", offset |-> f, length |-> n]
            /\ SlotCount(pg') = c + 1 /\ FreeOffset(pg') = f + n
            /\ \A s \in 0..c - 1 : SlotEntry(pg', s) = SlotEntry(pg, s)
            /\ Slice(pg', 0, f) = Slice(pg, 0, f)
            /\ get_record_from_page(pg', c) = [err |-> "ok", rec |-> pgLast'.rec]
            /\ free_space_in_page(pg') = free_space_in_page(pg) - (n + SLOT_ENTRY_SIZE)

C6_SuccessfulPageInsert == [][C6_Step]_vars

\* a third or later record, not empty, has gone into the page
C6_Witness ==
    /\ pgLast.err = "ok"
    /\ pgLast.slot >= 2
    /\ Len(pgLast.rec) > 0
    /\ FreeOffset(pg) > Len(pgLast.rec)

\* ------------------------------------------------------------------------
\* The other file-level calls
\* ------------------------------------------------------------------------
\* a call create_heap_file(fname)
CreateHeapFile ==
    /\ file' = create_heap_file(file)
    /\ last' = [op |-> "create_heap_file", err |-> "ok", rec |-> << >>,
                page |-> -1, slot |-> -1, num_pages |-> NumPages]
    /\ nops' = nops + 1
    /\ UNCHANGED << hist, pageVars, writerVars, recordVars >>

\* a call write_page(fname, page_num, page_data)
WritePage(page_num, page_data) ==
    /\ LET r == write_page(file, page_num, page_data)
       IN  /\ file' = r.file
           /\ last' = [op |-> "write_page", err |-> r.err, rec |-> << >>,
                       page |-> page_num, slot |-> -1, num_pages |-> NumPages]
    /\ nops' = nops + 1
    /\ UNCHANGED << hist, pageVars, writerVars, recordVars >>

\* a call append_page(fname, page_data)
AppendPage(page_data) ==
    /\ LET r == append_page(file, page_data)
       IN  /\ file' = r.file
           /\ last' = [op |-> "append_page", err |-> r.err, rec |-> << >>,
                       page |-> -1, slot |-> -1, num_pages |-> NumPages]
    /\ nops' = nops + 1
    /\ UNCHANGED << hist, pageVars, writerVars, recordVars >>

\* ------------------------------------------------------------------------
\* Every page the code builds: a behaviour works either on the stand-alone
\* page image or on the heap file, through create_heap_file and insert_record
\* ------------------------------------------------------------------------
NextPages ==
    \/ nops = 0 /\ pgOps < MaxPageOps /\ \E record \in Records : PageInsert(record)
    \/ pgOps = 0 /\ nops < MaxOps /\ CreateHeapFile
    \/ pgOps = 0 /\ nops < MaxOps /\ \E record \in Records : InsertRecord(record)

SpecPages == InitPageOnly /\ [][NextPages]_vars

\* ------------------------------------------------------------------------
\* C3: every page image built from initialize_empty_page by
\* insert_record_into_page calls, successful or failed, and every page of a
\* heap file built by create_heap_file and insert_record, satisfies
\* 4092 - 4 * slot_count >= free_offset: its free space is never negative.
\* ------------------------------------------------------------------------
PageSound(page) ==
    /\ Len(page) = PAGE_SIZE
    /\ PAGE_SIZE - FOOTER_SIZE - SLOT_ENTRY_SIZE * SlotCount(page) >= FreeOffset(page)
    /\ free_space_in_page(page) >= 0

C3_FreeSpaceNeverNegative ==
    /\ PageSound(pg)
    /\ \A p \in 0..NumPages - 1 : PageSound(PageOf(p))

\* a page filled to its last byte by two records, on which an insert failed
C3_Witness ==
    /\ pgLast.err = "ValueError"
    /\ SlotCount(pg) >= 2
    /\ free_space_in_page(pg) = 0

\* ------------------------------------------------------------------------
\* The heap file under all four file-level calls, from an absent file
\* ------------------------------------------------------------------------
FileRecords == { Rec(20, 65), Rec(4088, 68) }

\* page_data arguments: an empty page, a page holding one record, and an
\* object one byte short of a page
PageData ==
    { initialize_empty_page,
      insert_record_into_page(initialize_empty_page, Rec(20, 66)).image,
      Zeros(PAGE_SIZE - 1) }

InitFile ==
    /\ file = AbsentFile
    /\ InitHeap
    /\ InitPage
    /\ InitCodec
    /\ InitNoTable
    /\ InitNoWriters

NextFile ==
    /\ nops < MaxFileOps
    /\ \/ CreateHeapFile
       \/ \E record \in FileRecords : InsertRecord(record)
       \/ \E page_num \in 0..NumPages - 1 : \E page_data \in PageData :
              WritePage(page_num, page_data)
       \/ \E page_data \in PageData : AppendPage(page_data)

SpecFile == InitFile /\ [][NextFile]_vars

\* the file size is a positive multiple of PAGE_SIZE
C9_Size == file.exists => getsize(file) > 0 /\ getsize(file) % PAGE_SIZE = 0

\* ------------------------------------------------------------------------
\* C9 as stated: through create_heap_file, insert_record, write_page (to an
\* existing page) and append_page the file size is a positive multiple of
\* 4096 and the number of pages never decreases, growing by one page at a time.
\* ------------------------------------------------------------------------
C9_PagesNeverDecrease ==
    []C9_Size /\ [][NumPages' \in { NumPages, NumPages + 1 }]_vars

\* ------------------------------------------------------------------------
\* C9 amended: the file size is a positive multiple of 4096; insert_record,
\* write_page (to an existing page) and append_page never decrease the number
\* of pages and add a page only at the end, at most one per call;
\* create_heap_file leaves exactly one empty page, whatever the file held.
\* ------------------------------------------------------------------------
C9_Step ==
    /\ file.exists => file'.exists
    /\ IF last'.op = "create_heap_file"
       THEN file'.data = initialize_empty_page
       ELSE /\ NumPages' \in { NumPages, NumPages + 1 }
            /\ NumPages' = NumPages + 1 => Slice(file'.data, 0, getsize(file)) = file.data

C9_PagesOnlyAppended == []C9_Size /\ [][C9_Step]_vars

\* an insert_record has appended a page to a file that had pages
C9_Witness ==
    /\ last.op = "insert_record" /\ last.err = "ok"
    /\ last.num_pages >= 1
    /\ NumPages = last.num_pages + 1
    /\ last.page = last.num_pages /\ last.slot = 0

\* ------------------------------------------------------------------------
\* Two writers on one heap file.  An insert_record call is a sequence of
\* steps, each one file access of the code followed by the computing done in
\* memory up to the next access.  excl says whether the callers serialize
\* their calls with a lock of their own; the code takes none.
\* ------------------------------------------------------------------------
WriterRecords == { Rec(20, 65), Rec(20, 66), Rec(4088, 68) }

Returned(w) == [Idle EXCEPT !.calls = wr[w].calls]

CallResult(w, err, page, slot) ==
    [op |-> "insert_record", err |-> err, rec |-> wr[w].rec, page |-> page,
     slot |-> slot, num_pages |-> wr[w].num_pages]

\* lines 167-170: the call starts, creates the file if needed and counts pages
WBegin(w, record) ==
    /\ wr[w].pc = "idle"
    /\ wr[w].calls < MaxWriterInserts
    /\ excl => \A v \in Writers : wr[v].pc = "idle"
    /\ LET b == insert_begin(file)
       IN  /\ file' = b.file
           /\ wr' = [wr EXCEPT ![w] = [pc |-> "scan", rec |-> record,
                                       num_pages |-> b.num_pages, p |-> 0,
                                       new_page |-> << >>, slot |-> -1,
                                       calls |-> wr[w].calls + 1]]
    /\ nops' = nops + 1
    /\ UNCHANGED << last, hist, excl, pageVars, recordVars >>

\* lines 172-174: page p is read and the record inserted into the copy held
\* in memory; a page without room moves the loop to the next page
WRead(w) ==
    /\ wr[w].pc = "scan"
    /\ wr[w].p < wr[w].num_pages
    /\ LET page == read_page(file, wr[w].p)
           r == insert_record_into_page(page.data, wr[w].rec)
       IN  IF page.err # "ok"
           THEN /\ wr' = [wr EXCEPT ![w] = Returned(w)]
                /\ last' = CallResult(w, page.err, -1, -1)
           ELSE IF r.err = "ok"
           THEN /\ wr' = [wr EXCEPT ![w].pc = "write", ![w].new_page = r.image,
                                    ![w].slot = r.slot]
                /\ last' = last
           ELSE /\ wr' = [wr EXCEPT ![w].p = wr[w].p + 1]
                /\ last' = last
    /\ UNCHANGED << file, hist, nops, excl, pageVars, recordVars >>

\* lines 175-176: the new image is written over page p and (p, slot) returned
WWrite(w) ==
    /\ wr[w].pc = "write"
    /\ LET r == write_page(file, wr[w].p, wr[w].new_page)
       IN  IF r.err = "ok"
           THEN /\ file' = r.file
                /\ hist' = Append(hist, [rec |-> wr[w].rec, page |-> wr[w].p,
                                         slot |-> wr[w].slot])
                /\ last' = CallResult(w, "ok", wr[w].p, wr[w].slot)
                /\ wr' = [wr EXCEPT ![w] = Returned(w)]
           ELSE IF r.err = "ValueError"
           THEN /\ wr' = [wr EXCEPT ![w].pc = "scan", ![w].p = wr[w].p + 1,
                                    ![w].new_page = << >>, ![w].slot = -1]
                /\ UNCHANGED << file, hist, last >>
           ELSE /\ wr' = [wr EXCEPT ![w] = Returned(w)]
                /\ last' = CallResult(w, r.err, -1, -1)
                /\ UNCHANGED << file, hist >>
    /\ UNCHANGED << nops, excl, pageVars, recordVars >>

\* lines 179-183: no page had room; a fresh page with the record is appended
\* and (num_pages, slot) returned, num_pages being the count of lines 169-170
WAppend(w) ==
    /\ wr[w].pc = "scan"
    /\ wr[w].p >= wr[w].num_pages
    /\ LET r == insert_append(file, wr[w].rec, wr[w].num_pages)
       IN  /\ file' = r.file
           /\ hist' = IF r.err = "ok"
                      THEN Append(hist, [rec |-> wr[w].rec, page |-> r.page,
                                         slot |-> r.slot])
                      ELSE hist
           /\ last' = CallResult(w, r.err, r.page, r.slot)
    /\ wr' = [wr EXCEPT ![w] = Returned(w)]
    /\ UNCHANGED << nops, excl, pageVars, recordVars >>

InitWriters ==
    /\ file = AbsentFile
    /\ InitHeap
    /\ InitPage
    /\ InitCodec
    /\ InitNoTable
    /\ excl \in BOOLEAN
    /\ wr = [w \in Writers |-> Idle]

NextWriters ==
    \E w \in Writers :
        \/ \E record \in WriterRecords : WBegin(w, record)
        \/ WRead(w)
        \/ WWrite(w)
        \/ WAppend(w)

SpecWriters == InitWriters /\ [][NextWriters]_vars

\* every insert that returned an address has its record at that address, no
\* two inserts returned the same address, and the scan lists these records
NoLostInsert ==
    /\ \A i \in 1..Len(hist) :
           get_record_from_page(PageOf(hist[i].page), hist[i].slot)
               = [err |-> "ok", rec |-> hist[i].rec]
    /\ \A i, j \in 1..Len(hist) :
           i < j => << hist[i].page, hist[i].slot >> # << hist[j].page, hist[j].slot >>
    /\ LET S == get_all_raw_records(file)
       IN  /\ Len(S) = Len(hist)
           /\ \A i \in 1..Len(hist) :
                  \E j \in 1..Len(S) : S[j] = << hist[i].page, hist[i].slot, hist[i].rec >>

\* ------------------------------------------------------------------------
\* C10: two insert_record calls interleaved at their read_page and
\* write_page / append_page steps can reach a state where an insert that
\* returned an address has lost its record or shares its address with
\* another insert; with the calls serialized no such state is reachable.
\* ------------------------------------------------------------------------
C10_SerializedInsertsAreSafe == excl => NoLostInsert

\* interleaved: two inserts of different records returned the same address,
\* and the first one's record is no longer there
C10_Witness ==
    /\ ~excl
    /\ \E i, j \in 1..Len(hist) :
           /\ i < j
           /\ << hist[i].page, hist[i].slot >> = << hist[j].page, hist[j].slot >>
           /\ hist[i].rec # hist[j].rec
           /\ get_record_from_page(PageOf(hist[i].page), hist[i].slot).rec # hist[i].rec
    /\ Len(get_all_raw_records(file)) < Len(hist)

\* ------------------------------------------------------------------------
\* C17: a failed heap insert has no effect on storage: whenever insert_record
\* ends in an error the heap file is as it was before the call, including
\* whether it exists and how many pages it has.
\* ------------------------------------------------------------------------
C17_Step ==
    (nops' = nops + 1 /\ last'.op = "insert_record" /\ last'.err # "ok")
        => file' = file

C17_FailedInsertLeavesFile == [][C17_Step]_vars

\* ------------------------------------------------------------------------
\* C18: in every page built from the empty page by inserts the records are
\* packed and stay clear of the slot directory: slot 0 has offset 0, slot i+1
\* starts where slot i ends, free_offset is the sum of the slot lengths, and
\* offset + length of every slot is at most 4092 - 4 * slot_count.
\* ------------------------------------------------------------------------
SlotAt(page, i) == _read_slot(page, i, SlotCount(page))

RECURSIVE SumLengths(_, _)
SumLengths(page, c) ==
    IF c = 0 THEN 0 ELSE SlotAt(page, c - 1).length + SumLengths(page, c - 1)

PackedPage(page) ==
    LET c == SlotCount(page)
    IN  /\ c >= 1 => SlotAt(page, 0).offset = 0
        /\ \A i \in 0..c - 2 :
               SlotAt(page, i + 1).offset = SlotAt(page, i).offset + SlotAt(page, i).length
        /\ FreeOffset(page) = SumLengths(page, c)
        /\ \A i \in 0..c - 1 :
               SlotAt(page, i).offset + SlotAt(page, i).length
                   <= PAGE_SIZE - FOOTER_SIZE - SLOT_ENTRY_SIZE * c

C18_RecordsPacked == PackedPage(pg)

\* three or more records, the second and third behind a long first one
C18_Witness ==
    /\ SlotCount(pg) >= 3
    /\ SlotAt(pg, 0).length >= 2042
    /\ SlotAt(pg, 1).length > 0
    /\ SlotAt(pg, 2).offset > SlotAt(pg, 1).offset

\* ------------------------------------------------------------------------
\* Reading a slot of the stand-alone page
\* ------------------------------------------------------------------------
\* slot indexes a caller asks for: below, inside and above 0..slot_count-1
SlotIndexes(page) == -1..SlotCount(page) + 1

\* a call get_record_from_page(pg, slot_index)
GetRecord(slot_index) ==
    /\ LET r == get_record_from_page(pg, slot_index)
       IN  pgGot' = [called |-> TRUE, slot_index |-> slot_index,
                     err |-> r.err, rec |-> r.rec]
    /\ UNCHANGED << pg, pgLast, pgOps, pgHist, heapVars, writerVars, recordVars >>

NextPageRead ==
    \/ pgOps < MaxPageOps /\ \E record \in Records : PageInsert(record)
    \/ \E slot_index \in SlotIndexes(pg) : GetRecord(slot_index)

SpecPageRead == InitPageOnly /\ [][NextPageRead]_vars

\* ------------------------------------------------------------------------
\* C11: get_record_from_page(page, i) raises a range error for every i < 0
\* and every i >= slot_count (any i on an empty page included); for
\* 0 <= i < slot_count it returns exactly the bytes page[offset:offset+length]
\* named by slot i, which on a page built by inserts is the i-th inserted
\* record.
\* ------------------------------------------------------------------------
C11_ReadsTheSlot ==
    pgGot.called =>
        LET i == pgGot.slot_index
            entry == SlotEntry(pg, i)
            offset == UnpackU16(Slice(entry, 0, 2))
            length == UnpackU16(Slice(entry, 2, 4))
        IN  /\ (i < 0 \/ i >= SlotCount(pg)) =>
                   (pgGot.err = "IndexError" /\ pgGot.rec = << >>)
            /\ (0 <= i /\ i < SlotCount(pg)) =>
                   /\ pgGot.err = "ok"
                   /\ pgGot.rec = Slice(pg, offset, offset + length)
                   /\ Len(pgHist) = SlotCount(pg)
                   /\ pgGot.rec = pgHist[i + 1]

\* the third record of a page read back, and a read one past the last slot
C11_Witness ==
    /\ pgGot.called
    /\ pgGot.slot_index = 2
    /\ pgGot.err = "ok"
    /\ Len(pgGot.rec) = 20
    /\ Len(pgHist[1]) = 2042

C11_WitnessRange ==
    /\ pgGot.called
    /\ pgGot.slot_index = SlotCount(pg)
    /\ SlotCount(pg) >= 1
    /\ pgGot.err = "IndexError"

\* ------------------------------------------------------------------------
\* Values of the record codec (src/tp2.py:37-77)
\*
\* A str is the sequence of its code points, bytes are sequences of 0..255,
\* an int is an integer of the signed 32-bit range and a float is m * 2^e
\* with m and e integers (every such number is a Python float).
\* ------------------------------------------------------------------------
RECURSIVE Pow2(_)
Pow2(k) == IF k = 0 THEN 1 ELSE 2 * Pow2(k - 1)

Abs(x) == IF x < 0 THEN -x ELSE x

\* s.encode("utf-8") of one code point
Utf8(cp) ==
    IF cp < 128 THEN << cp >>
    ELSE IF cp < 2048 THEN << 192 + (cp \div 64), 128 + (cp % 64) >>
    ELSE IF cp < 65536
         THEN << 224 + (cp \div 4096), 128 + ((cp \div 64) % 64), 128 + (cp % 64) >>
         ELSE << 240 + (cp \div 262144), 128 + ((cp \div 4096) % 64),
                 128 + ((cp \div 64) % 64), 128 + (cp % 64) >>

\* s.encode("utf-8"): the code points' bytes joined, halves first to keep
\* the evaluation shallow
RECURSIVE str_encode(_)
str_encode(s) ==
    IF Len(s) = 0 THEN << >>
    ELSE IF Len(s) = 1 THEN Utf8(s[1])
    ELSE LET h == Len(s) \div 2
         IN  str_encode(SubSeq(s, 1, h)) \o str_encode(SubSeq(s, h + 1, Len(s)))

IsCont(b, i) == i >= 1 /\ i <= Len(b) /\ b[i] >= 128 /\ b[i] <= 191

\* bytes of the UTF-8 sequence a lead byte opens, 0 for a byte that opens none
Utf8Len(b0) ==
    IF b0 < 128 THEN 1
    ELSE IF b0 >= 194 /\ b0 <= 223 THEN 2
    ELSE IF b0 >= 224 /\ b0 <= 239 THEN 3
    ELSE IF b0 >= 240 /\ b0 <= 244 THEN 4
    ELSE 0

\* byte i opens a well-formed sequence
WellFormedAt(b, i) ==
    /\ Utf8Len(b[i]) > 0
    /\ \A j \in 1..Utf8Len(b[i]) - 1 : IsCont(b, i + j)
    /\ b[i] = 224 => b[i + 1] >= 160
    /\ b[i] = 237 => b[i + 1] <= 159
    /\ b[i] = 240 => b[i + 1] >= 144
    /\ b[i] = 244 => b[i + 1] <= 143

\* continuation byte i belongs to the sequence opened before it
CoveredAt(b, i) ==
    \E d \in 1..3 :
        /\ i - d >= 1
        /\ ~IsCont(b, i - d)
        /\ \A j \in i - d + 1..i - 1 : IsCont(b, j)
        /\ Utf8Len(b[i - d]) > d

\* the code point of the sequence byte i opens
CodePointAt(b, i) ==
    LET n == Utf8Len(b[i])
    IN  IF n = 1 THEN b[i]
        ELSE IF n = 2 THEN (b[i] - 192) * 64 + (b[i + 1] - 128)
        ELSE IF n = 3
             THEN (b[i] - 224) * 4096 + (b[i + 1] - 128) * 64 + (b[i + 2] - 128)
        ELSE (b[i] - 240) * 262144 + (b[i + 1] - 128) * 4096
                 + (b[i + 2] - 128) * 64 + (b[i + 3] - 128)

\* the code points opened in bytes lo..hi, in order
RECURSIVE CodePoints(_, _, _)
CodePoints(b, lo, hi) ==
    IF lo > hi THEN << >>
    ELSE IF lo = hi THEN (IF IsCont(b, lo) THEN << >> ELSE << CodePointAt(b, lo) >>)
    ELSE LET mid == lo + ((hi - lo) \div 2)
         IN  CodePoints(b, lo, mid) \o CodePoints(b, mid + 1, hi)

\* b.decode("utf-8"): the code points, or UnicodeDecodeError when some byte
\* neither opens a well-formed sequence nor continues one
bytes_decode(b) ==
    IF \A i \in 1..Len(b) : IF IsCont(b, i) THEN CoveredAt(b, i) ELSE WellFormedAt(b, i)
    THEN [err |-> "ok", s |-> CodePoints(b, 1, Len(b))]
    ELSE [err |-> "UnicodeDecodeError", s |-> << >>]

\* b.rstrip(b'\x00')
rstrip_zeros(b) ==
    LET nz == { i \in 1..Len(b) : b[i] # 0 }
    IN  IF nz = {} THEN << >>
        ELSE SubSeq(b, 1, CHOOSE i \in nz : \A j \in nz : j <= i)

\* struct.pack(">i", v) for v in the signed 32-bit range
_pack_int(v) ==
    LET top == IF v < 0 THEN 128 + ((v + 1073741824 + 1073741824) \div 16777216)
               ELSE v \div 16777216
        low == IF v < 0 THEN (v + 1073741824 + 1073741824) % 16777216
               ELSE v % 16777216
    IN  << top, low \div 65536, (low \div 256) % 256, low % 256 >>

\* _unpack_int: ValueError unless exactly four bytes
_unpack_int(b) ==
    IF Len(b) # 4 THEN [err |-> "ValueError", v |-> 0]
    ELSE [err |-> "ok",
          v |-> (IF b[1] >= 128 THEN (b[1] - 256) * 16777216 ELSE b[1] * 16777216)
                    + b[2] * 65536 + b[3] * 256 + b[4]]

\* a float value m * 2^e with m odd, or 0 as (0, 0)
RECURSIVE FloatNorm(_, _)
FloatNorm(m, e) ==
    IF m = 0 THEN [m |-> 0, e |-> 0]
    ELSE IF m % 2 = 0 THEN FloatNorm(m \div 2, e + 1)
    ELSE [m |-> m, e |-> e]

RECURSIVE BitLen(_)
BitLen(a) == IF a = 0 THEN 0 ELSE 1 + BitLen(a \div 2)

\* quotient q and remainder r of a division by 2 * half, rounded to the
\* nearest integer, ties to even
RoundHalfEven(q, r, half) ==
    IF r > half \/ (r = half /\ q % 2 = 1) THEN q + 1 ELSE q

\* a / 2^k rounded to the nearest integer, ties to even (a < 2^31, k >= 1)
RoundShift(a, k) ==
    IF k > 31 THEN 0
    ELSE IF k = 31 THEN (IF a > 1073741824 THEN 1 ELSE 0)
    ELSE RoundHalfEven(a \div Pow2(k), a % Pow2(k), Pow2(k - 1))

\* the four bytes of an IEEE-754 single: sign bit, 8 exponent bits, 23 fraction bits
FloatBytes(sign, biased, frac) ==
    << sign * 128 + (biased \div 2),
       (biased % 2) * 128 + (frac \div 65536),
       (frac \div 256) % 256,
       frac % 256 >>

\* a single with the 24-bit significand mant and exponent E
PackNormal(sign, mant, E) ==
    IF E > 127 THEN [err |-> "OverflowError", b |-> << >>]
    ELSE [err |-> "ok", b |-> FloatBytes(sign, E + 127, mant - 8388608)]

\* the rounded significand mant0 may have reached 2^24
PackRounded(sign, mant0, E0) ==
    IF mant0 = 16777216 THEN PackNormal(sign, 8388608, E0 + 1)
    ELSE PackNormal(sign, mant0, E0)

\* a number below 2^-126, in units of 2^-149
PackSubnormal(sign, sub) ==
    [err |-> "ok", b |-> FloatBytes(sign, sub \div 8388608, sub % 8388608)]

\* a * 2^e, a > 0 of L bits
PackMagnitude(sign, a, L, e) ==
    IF e + L - 1 < -126
    THEN PackSubnormal(sign, IF e + 149 >= 0 THEN a * Pow2(e + 149)
                             ELSE RoundShift(a, -(e + 149)))
    ELSE PackRounded(sign, IF L <= 24 THEN a * Pow2(24 - L) ELSE RoundShift(a, L - 24),
                     e + L - 1)

\* struct.pack(">f", m * 2^e): the nearest single, OverflowError beyond its range
_pack_float(m, e) ==
    IF m = 0 THEN [err |-> "ok", b |-> << 0, 0, 0, 0 >>]
    ELSE PackMagnitude(IF m < 0 THEN 1 ELSE 0, Abs(m), BitLen(Abs(m)), e)

SignedFloat(sign, mag) ==
    [err |-> "ok", m |-> IF sign = 1 THEN -mag.m ELSE mag.m, e |-> mag.e]

\* the value of a single; an exponent of 1024 stands for an infinity
\* (m = 1 or -1) or a NaN (m = 0)
FloatOfBits(sign, biased, frac) ==
    IF biased = 255
    THEN [err |-> "ok", e |-> 1024,
          m |-> IF frac # 0 THEN 0 ELSE IF sign = 1 THEN -1 ELSE 1]
    ELSE SignedFloat(sign, IF biased = 0 THEN FloatNorm(frac, -149)
                           ELSE FloatNorm(8388608 + frac, biased - 150))

\* _unpack_float: ValueError unless exactly four bytes
_unpack_float(b) ==
    IF Len(b) # 4 THEN [err |-> "ValueError", m |-> 0, e |-> 0]
    ELSE FloatOfBits(b[1] \div 128, (b[1] % 128) * 2 + (b[2] \div 128),
                     (b[2] % 128) * 65536 + b[3] * 256 + b[4])

\* b[:n]
Prefix(b, n) ==
    IF n >= 0 THEN SubSeq(b, 1, Min(n, Len(b))) ELSE SubSeq(b, 1, Len(b) + n)

\* if len(b) > n: b = b[:n]
Truncate(b, n) == IF Len(b) > n THEN Prefix(b, n) ELSE b

\* b + b'\x00' * (n - len(b))
PadZeros(b, n) == b \o Zeros(n - Len(b))

\* mutant: one more byte kept than the width
_pack_char_wide(s, n) == PadZeros(Truncate(str_encode(s), n + 1), n)

_pack_char(s, n) == PadZeros(Truncate(str_encode(s), n), n)

_unpack_char(b) == bytes_decode(rstrip_zeros(b))

\* if len(b) >= 256: b = b[:255]
Cap255(b) == IF Len(b) >= 256 THEN Prefix(b, 255) ELSE b

\* struct.pack(">B", length) + b + b'\x00' * (n - length)
LengthPrefixed(b, n) == << Len(b) >> \o b \o Zeros(n - Len(b))

\* mutant: the reserved content bytes are not padded
_pack_varchar_unpadded(s, n) ==
    << Len(Cap255(Truncate(str_encode(s), n))) >> \o Cap255(Truncate(str_encode(s), n))

_pack_varchar(s, n) == LengthPrefixed(Cap255(Truncate(str_encode(s), n)), n)

_unpack_varchar(b, n) ==
    IF Len(b) = 0 THEN [err |-> "ok", s |-> << >>]
    ELSE bytes_decode(SubSeq(b, 2, Min(1 + b[1], Len(b))))

\* ------------------------------------------------------------------------
\* Schema parsing and record encode/decode (src/tp2.py:218-295)
\* ------------------------------------------------------------------------
\* the literals of _parse_type, as code points
S_char == << 99, 104, 97, 114, 40 >>            \* "char("
S_varchar == << 118, 97, 114, 99, 104, 97, 114, 40 >>   \* "varchar("
S_close == << 41 >>                              \* ")"
S_int == << 105, 110, 116 >>                    \* "int"
S_float == << 102, 108, 111, 97, 116 >>        \* "float"

\* space, tab, line feed, carriage return, vertical tab, form feed
Whitespace == { 32, 9, 10, 13, 11, 12 }

\* s.strip()
Strip(s) ==
    LET ink == { i \in 1..Len(s) : s[i] \notin Whitespace }
    IN  IF ink = {} THEN << >>
        ELSE SubSeq(s, CHOOSE i \in ink : \A j \in ink : i <= j,
                       CHOOSE i \in ink : \A j \in ink : j <= i)

StartsWith(s, prefix) == Len(s) >= Len(prefix) /\ SubSeq(s, 1, Len(prefix)) = prefix

EndsWith(s, suffix) ==
    Len(s) >= Len(suffix) /\ SubSeq(s, Len(s) - Len(suffix) + 1, Len(s)) = suffix

IsDigit(c) == c >= 48 /\ c <= 57

\* the number a sequence of digits and underscores writes
RECURSIVE DigitsValue(_)
DigitsValue(d) ==
    IF d = << >> THEN 0
    ELSE IF d[Len(d)] = 95 THEN DigitsValue(SubSeq(d, 1, Len(d) - 1))
    ELSE 10 * DigitsValue(SubSeq(d, 1, Len(d) - 1)) + (d[Len(d)] - 48)

\* digits with single underscores between them
IsIntBody(d) ==
    /\ d # << >>
    /\ \A i \in 1..Len(d) : IsDigit(d[i]) \/ d[i] = 95
    /\ IsDigit(d[1]) /\ IsDigit(d[Len(d)])
    /\ \A i \in 1..Len(d) - 1 : ~(d[i] = 95 /\ d[i + 1] = 95)

IntOfBody(negative, d) ==
    IF ~IsIntBody(d) THEN [err |-> "ValueError", v |-> 0]
    ELSE [err |-> "ok", v |-> IF negative THEN -DigitsValue(d) ELSE DigitsValue(d)]

\* an optional sign, then the digits
IntOfStripped(t) ==
    IF t # << >> /\ t[1] \in { 43, 45 } THEN IntOfBody(t[1] = 45, Tail(t))
    ELSE IntOfBody(FALSE, t)

\* int(s) of a str: surrounding whitespace, an optional sign, then digits
\* with single underscores between them; ValueError otherwise
int_of_str(s) == IntOfStripped(Strip(s))

\* (base, int(width)), or the ValueError of int()
WidthType(base, n) == [err |-> n.err, base |-> base, param |-> n.v]

\* mutant: a type string that is none of the four is read as int
ParseStrippedLenient(ft) ==
    IF StartsWith(ft, S_char) /\ EndsWith(ft, S_close)
    THEN WidthType("char", int_of_str(SubSeq(ft, Len(S_char) + 1, Len(ft) - 1)))
    ELSE IF StartsWith(ft, S_varchar) /\ EndsWith(ft, S_close)
    THEN WidthType("varchar", int_of_str(SubSeq(ft, Len(S_varchar) + 1, Len(ft) - 1)))
    ELSE IF ft = S_float THEN [err |-> "ok", base |-> "float", param |-> 0]
    ELSE [err |-> "ok", base |-> "int", param |-> 0]

\* _parse_type after ft = ft.strip()
ParseStripped(ft) ==
    IF StartsWith(ft, S_char) /\ EndsWith(ft, S_close)
    THEN WidthType("char", int_of_str(SubSeq(ft, Len(S_char) + 1, Len(ft) - 1)))
    ELSE IF StartsWith(ft, S_varchar) /\ EndsWith(ft, S_close)
    THEN WidthType("varchar", int_of_str(SubSeq(ft, Len(S_varchar) + 1, Len(ft) - 1)))
    ELSE IF ft = S_int THEN [err |-> "ok", base |-> "int", param |-> 0]
    ELSE IF ft = S_float THEN [err |-> "ok", base |-> "float", param |-> 0]
    ELSE [err |-> "ValueError", base |-> "", param |-> 0]

\* _parse_type(ft): (base, param), ValueError for an unknown type string or
\* a width int() does not read
_parse_type(ft) == ParseStripped(Strip(ft))

\* the values a record map holds: an int, a float m * 2^e or a str
IntVal(i) == [k |-> "int", i |-> i, e |-> 0, s |-> << >>]

FloatVal(m, e) == [k |-> "float", i |-> m, e |-> e, s |-> << >>]

StrVal(s) == [k |-> "str", i |-> 0, e |-> 0, s |-> s]

\* the decimal digits of a natural number
RECURSIVE DigitsOf(_)
DigitsOf(n) == IF n < 10 THEN << 48 + n >> ELSE DigitsOf(n \div 10) \o << 48 + (n % 10) >>

\* int(val) of an int, of a float (cut toward zero) or of a str
py_int(val) ==
    CASE val.k = "int" -> [err |-> "ok", v |-> val.i]
      [] val.k = "float" ->
            [err |-> "ok",
             v |-> IF val.e >= 0 THEN val.i * Pow2(val.e)
                   ELSE IF val.i < 0 THEN -((-val.i) \div Pow2(-val.e))
                   ELSE val.i \div Pow2(-val.e)]
      [] val.k = "str" -> int_of_str(val.s)

\* float(val) of an int or a float
py_float(val) ==
    CASE val.k = "int" -> [m |-> val.i, e |-> 0]
      [] val.k = "float" -> [m |-> val.i, e |-> val.e]

\* str(val) of a str or an int
py_str(val) ==
    CASE val.k = "str" -> val.s
      [] val.k = "int" ->
            IF val.i < 0 THEN << 45 >> \o DigitsOf(-val.i) ELSE DigitsOf(val.i)

\* record_dict.get(name, default)
DictGet(record_dict, name, default) ==
    IF name \in DOMAIN record_dict THEN record_dict[name] ELSE default

\* _pack_int(int(val)), or the error of int(val)
PackIntOf(v) ==
    IF v.err # "ok" THEN [err |-> v.err, b |-> << >>]
    ELSE [err |-> "ok", b |-> _pack_int(v.v)]

\* _pack_float(float(val))
PackFloatOf(v) == _pack_float(v.m, v.e)

\* the branch of encode_record for a value of a field of type (base, param)
encode_value(val, base, param) ==
    CASE base = "int" -> PackIntOf(py_int(val))
      [] base = "float" -> PackFloatOf(py_float(val))
      [] base = "char" -> [err |-> "ok", b |-> _pack_char(py_str(val), param)]
      [] base = "varchar" -> [err |-> "ok", b |-> _pack_varchar(py_str(val), param)]

\* one field of encode_record once its type is parsed
encode_parsed(record_dict, name, t) ==
    IF t.err # "ok" THEN [err |-> t.err, b |-> << >>]
    ELSE encode_value(
             DictGet(record_dict, name,
                     IF t.base \in { "char", "varchar" } THEN StrVal(<< >>) ELSE IntVal(0)),
             t.base, t.param)

\* one field of encode_record: its bytes, or the error raised on the way
encode_field(record_dict, f) == encode_parsed(record_dict, f.name, _parse_type(f.type))

\* b"".join of one part and the parts after it
JoinParts(b, rest) ==
    IF rest.err # "ok" THEN rest ELSE [err |-> "ok", b |-> b \o rest.b]

\* the loop of encode_record over fields[i..]: the joined parts, or the
\* first error
RECURSIVE encode_fields(_, _, _)
RECURSIVE encode_from(_, _, _, _)
encode_from(part, record_dict, fields, i) ==
    IF part.err # "ok" THEN part
    ELSE JoinParts(part.b, encode_fields(record_dict, fields, i + 1))

encode_fields(record_dict, fields, i) ==
    IF i > Len(fields) THEN [err |-> "ok", b |-> << >>]
    ELSE encode_from(encode_field(record_dict, fields[i]), record_dict, fields, i)

encode_record(record_dict, table_name, schema) ==
    IF table_name \notin DOMAIN schema THEN [err |-> "ValueError", b |-> << >>]
    ELSE encode_fields(record_dict, schema[table_name].fields, 1)

\* res[name] = value
DictSet(res, name, value) ==
    [n \in DOMAIN res \cup { name } |-> IF n = name THEN value ELSE res[n]]

IntField(v) == [err |-> v.err, val |-> IntVal(v.v), width |-> 4]

FloatField(v) == [err |-> v.err, val |-> FloatVal(v.m, v.e), width |-> 4]

StrField(v, width) == [err |-> v.err, val |-> StrVal(v.s), width |-> width]

\* one field of decode_record at idx once its type is parsed: its value
\* and the width consumed
decode_parsed(record_bytes, t, idx) ==
    IF t.err # "ok" THEN [err |-> t.err, val |-> IntVal(0), width |-> 0]
    ELSE CASE t.base = "int" -> IntField(_unpack_int(Slice(record_bytes, idx, idx + 4)))
           [] t.base = "float" ->
                FloatField(_unpack_float(Slice(record_bytes, idx, idx + 4)))
           [] t.base = "char" ->
                StrField(_unpack_char(Slice(record_bytes, idx, idx + t.param)), t.param)
           [] t.base = "varchar" ->
                IF idx >= Len(record_bytes)
                THEN [err |-> "ok", val |-> StrVal(<< >>), width |-> 1 + t.param]
                ELSE StrField(_unpack_varchar(
                                  Slice(record_bytes, idx, idx + 1 + t.param), t.param),
                              1 + t.param)

decode_field(record_bytes, f, idx) == decode_parsed(record_bytes, _parse_type(f.type), idx)

\* the loop of decode_record over fields[i..] with res and idx so far
RECURSIVE decode_fields(_, _, _, _, _)
RECURSIVE decode_from(_, _, _, _, _, _)
decode_from(d, record_bytes, fields, i, idx, res) ==
    IF d.err # "ok" THEN [err |-> d.err, res |-> << >>]
    ELSE decode_fields(record_bytes, fields, i + 1, idx + d.width,
                       DictSet(res, fields[i].name, d.val))

decode_fields(record_bytes, fields, i, idx, res) ==
    IF i > Len(fields) THEN [err |-> "ok", res |-> res]
    ELSE decode_from(decode_field(record_bytes, fields[i], idx),
                     record_bytes, fields, i, idx, res)

decode_record(record_bytes, table_name, schema) ==
    IF table_name \notin DOMAIN schema THEN [err |-> "ValueError", res |-> << >>]
    ELSE decode_fields(record_bytes, schema[table_name].fields, 1, 0, << >>)

\* ------------------------------------------------------------------------
\* The schema and the record maps the codec is run on
\* ------------------------------------------------------------------------
N_emp == << 101, 109, 112 >>      \* "emp"
N_big == << 98, 105, 103 >>       \* "big"
N_bad == << 98, 97, 100 >>        \* "bad"
N_nope == << 110, 111, 112, 101 >>  \* "nope", a table the schema does not have
F_big == << 98, 105, 103, 46, 100, 97, 116 >>  \* "big.dat"

Field(name, type) == [name |-> name, type |-> type]

\* emp(id int, salary " float ", name char(4), note varchar(3)),
\* big(v varchar(300), c char(2)) kept in "big.dat",
\* bad(id int, x text): an unknown type after a valid field
TheSchema ==
    (N_emp :> [table_name |-> N_emp, file_name |-> << >>,
               fields |-> << Field("id", S_int),
                             Field("salary", << 32 >> \o S_float \o << 32 >>),
                             Field("name", S_char \o << 52 >> \o S_close),
                             Field("note", S_varchar \o << 51 >> \o S_close) >>])
    @@ (N_big :> [table_name |-> N_big, file_name |-> F_big,
                  fields |-> << Field("v", S_varchar \o << 51, 48, 48 >> \o S_close),
                                Field("c", S_char \o << 50 >> \o S_close) >>])
    @@ (N_bad :> [table_name |-> N_bad, file_name |-> << >>,
                  fields |-> << Field("id", S_int),
                                Field("x", << 116, 101, 120, 116 >>) >>])

\* k times the code point cp
Repeat(cp, k) == [i \in 1..k |-> cp]

\* 0, a negative int, the largest and the smallest 32-bit int
IntValues == { IntVal(0), IntVal(-5), IntVal(2147483647), IntVal(-2147483647 - 1) }

\* 0.0, 4500.0, -1.5, 16777217.0 (no single has 25 significant bits) and
\* 2.0 ** 128 (beyond the singles)
FloatValues ==
    { FloatVal(0, 0), FloatVal(1125, 2), FloatVal(-3, -1), FloatVal(16777217, 0),
      FloatVal(1, 128) }

\* for char(4): "", "ab", "abcd", "abcde", "a\0", "abcé" (5 bytes, the
\* 4th and 5th one code point), "éé" (4 bytes)
NameValues ==
    { StrVal(<< >>), StrVal(<< 97, 98 >>), StrVal(<< 97, 98, 99, 100 >>),
      StrVal(<< 97, 98, 99, 100, 101 >>), StrVal(<< 97, 0 >>),
      StrVal(<< 97, 98, 99, 233 >>), StrVal(<< 233, 233 >>) }

\* for varchar(3): "", "abc", "abcd", "aé" (3 bytes), "abé" (4 bytes,
\* the 3rd and 4th one code point), "a\0"
NoteValues ==
    { StrVal(<< >>), StrVal(<< 97, 98, 99 >>), StrVal(<< 97, 98, 99, 100 >>),
      StrVal(<< 97, 233 >>), StrVal(<< 97, 98, 233 >>), StrVal(<< 97, 0 >>) }

\* for varchar(300): 255, 256, 300 and 301 bytes of "a", 128 times "é"
\* (256 bytes) and 255 times "a" then "é" (257 bytes)
LongValues ==
    { StrVal(Repeat(97, 255)), StrVal(Repeat(97, 256)), StrVal(Repeat(97, 300)),
      StrVal(Repeat(97, 301)), StrVal(Repeat(233, 128)),
      StrVal(Repeat(97, 255) \o << 233 >>) }

\* record maps that give every field of emp a value of its type
EmpRecords ==
    { ("id" :> i) @@ ("salary" :> f) @@ ("name" :> n) @@ ("note" :> t) :
          i \in IntValues, f \in FloatValues, n \in NameValues, t \in NoteValues }

\* record maps that leave fields out or give a value of another type:
\* {}, {"id": 7}, {"id": "12"}, {"id": "x"}, {"name": -12}, {"id": 2.75}
OtherEmpRecords ==
    { << >>, "id" :> IntVal(7), "id" :> StrVal(<< 49, 50 >>), "id" :> StrVal(<< 120 >>),
      "name" :> IntVal(-12), "id" :> FloatVal(11, -2) }

BigRecords ==
    { ("v" :> v) @@ ("c" :> c) :
          v \in LongValues, c \in { StrVal(<< >>), StrVal(<< 120, 121 >>) } }

Input(record_dict, table_name) ==
    [called |-> TRUE, record_dict |-> record_dict, table_name |-> table_name]

CodecInputs ==
    { Input(r, N_emp) : r \in EmpRecords \cup OtherEmpRecords }
    \cup { Input(r, N_big) : r \in BigRecords }
    \cup { Input(r, N_bad) : r \in { << >>, "id" :> IntVal(1) } }
    \cup { Input(<< >>, N_nope) }

\* ------------------------------------------------------------------------
\* Calls of the codec
\* ------------------------------------------------------------------------
\* a call encode_record(record_dict, table_name, schema)
EncodeRecord(record_dict, table_name) ==
    /\ tops = 0
    /\ cenc = NoEncode
    /\ cin' = Input(record_dict, table_name)
    /\ cenc' = encode_record(record_dict, table_name, TheSchema)
    /\ UNCHANGED << cdec, tableVars, heapVars, pageVars, writerVars >>

\* the buffers handed to decode_record: what encode_record returned, cut
\* after any number of bytes, or two buffers of zero bytes when it failed
Buffers ==
    IF cenc.err = "ok" THEN { Prefix(cenc.b, k) : k \in 0..Len(cenc.b) }
    ELSE { << >>, Zeros(8) }

\* a call decode_record(record_bytes, table_name, schema)
DecodeRecord(record_bytes) ==
    /\ cenc # NoEncode
    /\ tops = 0
    /\ ~cdec.called
    /\ LET r == decode_record(record_bytes, cin.table_name, TheSchema)
       IN  cdec' = [called |-> TRUE, record_bytes |-> record_bytes,
                    err |-> r.err, res |-> r.res]
    /\ UNCHANGED << cin, cenc, tableVars, heapVars, pageVars, writerVars >>

\* no stand-alone page is held
InitNoPage ==
    /\ pg = << >>
    /\ pgLast = NoPageCall
    /\ pgOps = 0
    /\ pgHist = << >>
    /\ pgGot = NoGet

InitCodecOnly ==
    /\ file = AbsentFile
    /\ InitHeap
    /\ InitNoPage
    /\ InitNoWriters
    /\ InitNoTable
    /\ InitCodec

NextCodec ==
    \/ \E inp \in CodecInputs : EncodeRecord(inp.record_dict, inp.table_name)
    \/ \E record_bytes \in Buffers : DecodeRecord(record_bytes)

SpecCodec == InitCodecOnly /\ [][NextCodec]_vars

\* ------------------------------------------------------------------------
\* C14: the encoded layout depends only on the schema: _pack_varchar(s, n)
\* is 1 + n bytes, the first equal to min(len(utf8(s)), n, 255), then that
\* many content bytes, then zero padding; _pack_char(s, n) is n bytes; so
\* the length of what encode_record returns is the sum of the field widths
\* (4 for int and float, n for char(n), 1 + n for varchar(n)), whatever the
\* record map.
\* ------------------------------------------------------------------------
\* the stored width of a field of type t = (base, param)
FieldWidth(t) ==
    CASE t.base \in { "int", "float" } -> 4
      [] t.base = "char" -> t.param
      [] t.base = "varchar" -> 1 + t.param

\* the widths of the fields before field i, i.e. the offset of field i
RECURSIVE WidthsBefore(_, _)
WidthsBefore(fields, i) ==
    IF i <= 1 THEN 0
    ELSE WidthsBefore(fields, i - 1) + FieldWidth(_parse_type(fields[i - 1].type))

\* seg holds the first k bytes of u and then zero bytes only
ContentThenZeros(seg, u, k) ==
    /\ \A j \in 1..k : seg[j] = u[j]
    /\ \A j \in k + 1..Len(seg) : seg[j] = 0

\* seg is the varchar(n) image of the UTF-8 bytes u
VarcharLayout(seg, u, n) ==
    /\ Len(seg) = 1 + n
    /\ seg[1] = Min(Min(Len(u), n), 255)
    /\ ContentThenZeros(Tail(seg), u, seg[1])

\* seg is the char(n) image of the UTF-8 bytes u
CharLayout(seg, u, n) ==
    /\ Len(seg) = n
    /\ ContentThenZeros(seg, u, Min(Len(u), n))

\* the bytes of out from offset off of a field of type t hold the value val
FieldLayout(out, off, t, val) ==
    CASE t.base \in { "int", "float" } -> Len(SubSeq(out, off + 1, off + 4)) = 4
      [] t.base = "char" ->
            CharLayout(SubSeq(out, off + 1, off + t.param), str_encode(py_str(val)), t.param)
      [] t.base = "varchar" ->
            VarcharLayout(SubSeq(out, off + 1, off + 1 + t.param),
                          str_encode(py_str(val)), t.param)

\* the value encode_record takes for a field: the map's, or the default
FieldValue(record_dict, f) ==
    DictGet(record_dict, f.name,
            IF _parse_type(f.type).base \in { "char", "varchar" }
            THEN StrVal(<< >>) ELSE IntVal(0))

LayoutOf(out, record_dict, fields) ==
    /\ Len(out) = WidthsBefore(fields, Len(fields) + 1)
    /\ \A i \in 1..Len(fields) :
           FieldLayout(out, WidthsBefore(fields, i), _parse_type(fields[i].type),
                       FieldValue(record_dict, fields[i]))

C14_LayoutFromSchema ==
    cenc.err = "ok" => LayoutOf(cenc.b, cin.record_dict, TheSchema[cin.table_name].fields)

\* a 300-byte string in varchar(300): the length byte is capped at 255
C14_Witness ==
    /\ cenc.err = "ok"
    /\ cin.table_name = N_big
    /\ Len(cin.record_dict["v"].s) = 300
    /\ cenc.b[1] = 255
    /\ Len(cenc.b) = 303

\* ------------------------------------------------------------------------
\* C13: round trip of the record codec: for every schema over int, float,
\* char(n), varchar(n) and every record map that gives each field a value of
\* its type within width (int in the signed 32-bit range, string of at most
\* n UTF-8 bytes, float exactly representable in single precision),
\* decode_record(encode_record(v)) == v; a string longer than n bytes
\* decodes to exactly its first n bytes.
\* ------------------------------------------------------------------------
\* m * 2^e is a single: at most 24 significant bits, within the exponent range
IsSingle(nf) ==
    \/ nf.m = 0
    \/ /\ BitLen(Abs(nf.m)) <= 24
       /\ nf.e >= -149
       /\ nf.e + BitLen(Abs(nf.m)) - 1 <= 127

\* val is a value of the type t of its field
OfType(val, t) ==
    CASE t.base = "int" -> val.k = "int"
      [] t.base = "float" -> val.k = "float" /\ IsSingle(FloatNorm(val.i, val.e))
      [] t.base \in { "char", "varchar" } -> val.k = "str"

\* the record map gives every field a value of its type
TypedRecord(record_dict, fields) ==
    \A i \in 1..Len(fields) :
        /\ fields[i].name \in DOMAIN record_dict
        /\ OfType(record_dict[fields[i].name], _parse_type(fields[i].type))

\* decode_record has been run on the whole of what encode_record returned
\* for a record map that gives every field a value of its type
RoundTripDone ==
    /\ cenc.err = "ok"
    /\ cdec.called
    /\ cdec.record_bytes = cenc.b
    /\ TypedRecord(cin.record_dict, TheSchema[cin.table_name].fields)

\* two values are equal as Python compares them
SameValue(a, b) ==
    IF a.k = "float" /\ b.k = "float" THEN FloatNorm(a.i, a.e) = FloatNorm(b.i, b.e)
    ELSE a = b

\* the claim, for one field: its value back, or the first n bytes of it
RoundTripField(val, got, u, t) ==
    IF t.base \in { "char", "varchar" } /\ Len(u) > t.param
    THEN got.k = "str" /\ str_encode(got.s) = Prefix(u, t.param)
    ELSE SameValue(got, val)

C13_RoundTrip ==
    RoundTripDone =>
        /\ cdec.err = "ok"
        /\ \A i \in 1..Len(TheSchema[cin.table_name].fields) :
               LET f == TheSchema[cin.table_name].fields[i]
               IN  RoundTripField(cin.record_dict[f.name], cdec.res[f.name],
                                  str_encode(cin.record_dict[f.name].s), _parse_type(f.type))

\* the bytes a field of type t keeps of a string: n for char(n), min(n, 255)
\* for varchar(n)
KeptBytes(t) == IF t.base = "varchar" THEN Min(t.param, 255) ELSE t.param

\* UTF-8 bytes of the first k code points of s
Utf8Size(s, k) == Len(str_encode(SubSeq(s, 1, k)))

\* the code points of s that lie whole within its first cap bytes
KeptCount(s, cap) ==
    CHOOSE k \in 0..Len(s) :
        /\ Utf8Size(s, k) <= cap
        /\ k = Len(s) \/ Utf8Size(s, k + 1) > cap

\* the first cap bytes of s end between two code points
CutBetween(s, cap) ==
    Utf8Size(s, Len(s)) <= cap \/ Utf8Size(s, KeptCount(s, cap)) = cap

\* what a field of type t gives back for the string s
KeptString(s, t) ==
    IF t.base = "char" THEN rstrip_zeros(SubSeq(s, 1, KeptCount(s, KeptBytes(t))))
    ELSE SubSeq(s, 1, KeptCount(s, KeptBytes(t)))

FieldCutBetween(val, t) ==
    t.base \in { "char", "varchar" } => CutBetween(val.s, KeptBytes(t))

FieldBack(val, got, t) ==
    IF t.base \in { "char", "varchar" } THEN got = StrVal(KeptString(val.s, t))
    ELSE SameValue(got, val)

AllCutBetween(record_dict, fields) ==
    \A i \in 1..Len(fields) :
        FieldCutBetween(record_dict[fields[i].name], _parse_type(fields[i].type))

AllBack(record_dict, res, fields) ==
    \A i \in 1..Len(fields) :
        FieldBack(record_dict[fields[i].name], res[fields[i].name],
                  _parse_type(fields[i].type))

\* as amended: ints and floats come back as they were; a string comes back
\* as the code points that lie whole within its first n bytes (min(n, 255)
\* for varchar(n)), for char(n) without the zero code points at their end;
\* if those bytes end inside a code point, decode_record raises
\* UnicodeDecodeError
C13_RoundTripWithinCaps ==
    RoundTripDone =>
        IF AllCutBetween(cin.record_dict, TheSchema[cin.table_name].fields)
        THEN /\ cdec.err = "ok"
             /\ AllBack(cin.record_dict, cdec.res, TheSchema[cin.table_name].fields)
        ELSE cdec.err = "UnicodeDecodeError"

\* {"id": -5, "salary": 4500.0, "name": "abcde", "note": "aé"} encoded
\* and decoded: "abcde" is cut to "abcd", the rest comes back as it was
C13_Witness ==
    /\ RoundTripDone
    /\ cin.record_dict =
           ("id" :> IntVal(-5)) @@ ("salary" :> FloatVal(1125, 2))
           @@ ("name" :> StrVal(<< 97, 98, 99, 100, 101 >>))
           @@ ("note" :> StrVal(<< 97, 233 >>))
    /\ cdec.err = "ok"
    /\ cdec.res["name"] = StrVal(<< 97, 98, 99, 100 >>)
    /\ cdec.res["note"] = StrVal(<< 97, 233 >>)
    /\ cdec.res["salary"] = FloatVal(1125, 2)
    /\ cdec.res["id"] = IntVal(-5)

\* ------------------------------------------------------------------------
\* C15: decode_record tolerates a truncated varchar: for every buffer that
\* ends before a varchar field's 1 + n bytes are complete, decoding does not
\* fail on that field and yields the empty string "" for it.
\* ------------------------------------------------------------------------
\* the field of type t at offset off is a varchar the buffer ends before
\* the end of
TruncatedVarchar(record_bytes, t, off) ==
    t.base = "varchar" /\ Len(record_bytes) < off + 1 + t.param

\* decoding that field does not fail and gives ""
DecodesEmpty(d, t) ==
    d.err = "ok" /\ d.val = StrVal(<< >>) /\ d.width = 1 + t.param

C15_Fields(record_bytes, fields) ==
    \A i \in 1..Len(fields) :
        TruncatedVarchar(record_bytes, _parse_type(fields[i].type), WidthsBefore(fields, i))
            => /\ DecodesEmpty(decode_field(record_bytes, fields[i], WidthsBefore(fields, i)),
                               _parse_type(fields[i].type))
               /\ cdec.err = "ok" => cdec.res[fields[i].name] = StrVal(<< >>)

C15_TruncatedVarcharEmpty ==
    (cenc.err = "ok" /\ cdec.called)
        => C15_Fields(cdec.record_bytes, TheSchema[cin.table_name].fields)

\* ------------------------------------------------------------------------
\* Structured file operations (src/tp2.py:300-323)
\* ------------------------------------------------------------------------
S_heap == << 46, 104, 101, 97, 112 >>  \* ".heap"

\* calls of the structured file operations made on the tables' files
MaxTableOps == 4

\* table_desc.get("file_name") or (table_desc["table_name"] + ".heap")
table_file_name(table_desc) ==
    IF table_desc.file_name # << >> THEN table_desc.file_name
    ELSE table_desc.table_name \o S_heap

\* what insert_record(fname, rec) returned, and the files afterwards
InsertResult(files, fname, r) ==
    [err |-> r.err, files |-> [files EXCEPT ![fname] = r.file],
     out |-> IF r.err = "ok" THEN << r.page, r.slot >> ELSE << >>]

\* insert_record(fname, rec) on the files, once rec is encoded
InsertEncoded(files, fname, rec) ==
    IF rec.err # "ok" THEN [err |-> rec.err, files |-> files, out |-> << >>]
    ELSE InsertResult(files, fname, insert_record(files[fname], rec.b))

\* insert_structured_record(table_name, schema, record_dict): the address
\* returned or the error raised, and the files afterwards
insert_structured_record(table_name, schema, record_dict, files) ==
    IF table_name \notin DOMAIN schema
    THEN [err |-> "KeyError", files |-> files, out |-> << >>]
    ELSE InsertEncoded(files, table_file_name(schema[table_name]),
                       encode_record(record_dict, table_name, schema))

\* mutant: a scan that creates the file it does not find
get_all_raw_records_call_creating(f) ==
    [file |-> IF f.exists THEN f ELSE create_heap_file(f), out |-> get_all_raw_records(f)]

\* a call get_all_raw_records(fname): the list returned and the file
\* afterwards; the file is only tested for existence, sized and read
get_all_raw_records_call(f) == [file |-> f, out |-> get_all_raw_records(f)]

PrependDecoded(res, rest) ==
    IF rest.err # "ok" THEN rest ELSE [err |-> "ok", out |-> << res >> \o rest.out]

DecodedWithFiles(files, r) == [err |-> r.err, files |-> files, out |-> r.out]

\* out.append(decode_record(rec_bytes, ...)) for raws[i..]: the list, or the
\* first error
RECURSIVE decode_all(_, _, _, _)
RECURSIVE decode_rest(_, _, _, _, _)
decode_rest(d, raws, i, table_name, schema) ==
    IF d.err # "ok" THEN [err |-> d.err, out |-> << >>]
    ELSE PrependDecoded(d.res, decode_all(raws, i + 1, table_name, schema))

decode_all(raws, i, table_name, schema) ==
    IF i > Len(raws) THEN [err |-> "ok", out |-> << >>]
    ELSE decode_rest(decode_record(raws[i][3], table_name, schema),
                     raws, i, table_name, schema)

ReadScanned(files, fname, scan, table_name, schema) ==
    DecodedWithFiles([files EXCEPT ![fname] = scan.file],
                     decode_all(scan.out, 1, table_name, schema))

\* read_all_structured_records(table_name, schema): the list of record maps
\* or the error raised, and the files afterwards
read_all_structured_records(table_name, schema, files) ==
    IF table_name \notin DOMAIN schema
    THEN [err |-> "KeyError", files |-> files, out |-> << >>]
    ELSE ReadScanned(files, table_file_name(schema[table_name]),
                     get_all_raw_records_call(files[table_file_name(schema[table_name])]),
                     table_name, schema)

\* the files of the schema's tables: "emp.heap", "big.dat", "bad.heap"
TableFiles == { table_file_name(TheSchema[t]) : t \in DOMAIN TheSchema }

\* the table names given to the calls: the schema's and one it does not have
TableNames == DOMAIN TheSchema \cup { N_nope }

\* record maps given to insert_structured_record: for emp
\* {-5, 4500.0, "abcde", "aé"}, {0, 0.0, "", ""}, {0, 0.0, "abcé", ""},
\* {}, {"id": "x"} and {"salary": 2.0 ** 128}; for big 256 bytes of "a";
\* {"id": 1} for bad and {} for the table the schema does not have
TableInputs ==
    { Input(("id" :> IntVal(-5)) @@ ("salary" :> FloatVal(1125, 2))
            @@ ("name" :> StrVal(<< 97, 98, 99, 100, 101 >>))
            @@ ("note" :> StrVal(<< 97, 233 >>)), N_emp),
      Input(("id" :> IntVal(0)) @@ ("salary" :> FloatVal(0, 0))
            @@ ("name" :> StrVal(<< >>)) @@ ("note" :> StrVal(<< >>)), N_emp),
      Input(("id" :> IntVal(0)) @@ ("salary" :> FloatVal(0, 0))
            @@ ("name" :> StrVal(<< 97, 98, 99, 233 >>)) @@ ("note" :> StrVal(<< >>)),
            N_emp),
      Input(<< >>, N_emp),
      Input("id" :> StrVal(<< 120 >>), N_emp),
      Input("salary" :> FloatVal(1, 128), N_emp),
      Input(("v" :> StrVal(Repeat(97, 256))) @@ ("c" :> StrVal(<< 120, 121 >>)), N_big),
      Input("id" :> IntVal(1), N_bad),
      Input(<< >>, N_nope) }

\* a call insert_structured_record(table_name, schema, record_dict)
InsertStructured(table_name, record_dict) ==
    /\ tops < MaxTableOps
    /\ cenc = NoEncode
    /\ LET r == insert_structured_record(table_name, TheSchema, record_dict, tfiles)
       IN  /\ tfiles' = r.files
           /\ tlast' = [op |-> "insert_structured_record", table_name |-> table_name,
                        err |-> r.err, out |-> r.out, again |-> FALSE]
    /\ tops' = tops + 1
    /\ UNCHANGED << codecVars, heapVars, pageVars, writerVars >>

\* a call read_all_structured_records(table_name, schema)
ReadAllStructured(table_name) ==
    /\ tops < MaxTableOps
    /\ cenc = NoEncode
    /\ LET r == read_all_structured_records(table_name, TheSchema, tfiles)
       IN  /\ tfiles' = r.files
           /\ tlast' = [op |-> "read_all_structured_records", table_name |-> table_name,
                        err |-> r.err, out |-> r.out,
                        again |-> tlast.op = "read_all_structured_records"
                                      /\ tlast.table_name = table_name]
    /\ tops' = tops + 1
    /\ UNCHANGED << codecVars, heapVars, pageVars, writerVars >>

\* a call get_all_raw_records(fname)
GetAllRaw(fname) ==
    /\ tops < MaxTableOps
    /\ cenc = NoEncode
    /\ LET r == get_all_raw_records_call(tfiles[fname])
       IN  /\ tfiles' = [tfiles EXCEPT ![fname] = r.file]
           /\ tlast' = [op |-> "get_all_raw_records", table_name |-> fname,
                        err |-> "ok", out |-> r.out,
                        again |-> tlast.op = "get_all_raw_records"
                                      /\ tlast.table_name = fname]
    /\ tops' = tops + 1
    /\ UNCHANGED << codecVars, heapVars, pageVars, writerVars >>

InitTable ==
    /\ file = AbsentFile
    /\ InitHeap
    /\ InitNoPage
    /\ InitNoWriters
    /\ InitCodec
    /\ tfiles = [fname \in TableFiles |-> AbsentFile]
    /\ tlast = NoTableCall
    /\ tops = 0

NextTable ==
    \/ \E inp \in TableInputs : InsertStructured(inp.table_name, inp.record_dict)
    \/ \E table_name \in TableNames : ReadAllStructured(table_name)
    \/ \E fname \in TableFiles : GetAllRaw(fname)
    \/ \E inp \in TableInputs : EncodeRecord(inp.record_dict, inp.table_name)
    \/ \E record_bytes \in Buffers : DecodeRecord(record_bytes)

SpecTable == InitTable /\ [][NextTable]_vars

\* ------------------------------------------------------------------------
\* C16: schema errors fail fast with no partial result and no storage
\* effect: insert_structured_record, encode_record or decode_record called
\* with a table name the schema does not have, or with a table one of whose
\* fields has a type string that is not int, float, char(N) or varchar(N),
\* ends in an error, returns no bytes, mapping or address, and leaves the
\* table's heap file as it was (not created, no page written), also when
\* the bad field comes after valid ones.
\* ------------------------------------------------------------------------
\* ft is prefix, decimal digits, ")"
IsWidthTypeString(ft, prefix) ==
    /\ StartsWith(ft, prefix)
    /\ EndsWith(ft, S_close)
    /\ Len(ft) > Len(prefix) + 1
    /\ \A i \in Len(prefix) + 1..Len(ft) - 1 : IsDigit(ft[i])

\* ft is int, float, char(N) or varchar(N)
IsTypeString(ft) ==
    \/ ft \in { S_int, S_float }
    \/ IsWidthTypeString(ft, S_char)
    \/ IsWidthTypeString(ft, S_varchar)

HasBadField(fields) == \E i \in 1..Len(fields) : ~IsTypeString(Strip(fields[i].type))

BadTable(table_name) ==
    table_name \notin DOMAIN TheSchema \/ HasBadField(TheSchema[table_name].fields)

IsError(err) == err \notin { "ok", "none" }

C16_InsertStep ==
    (tops' = tops + 1 /\ tlast'.op = "insert_structured_record"
        /\ BadTable(tlast'.table_name))
        => (IsError(tlast'.err) /\ tlast'.out = << >> /\ tfiles' = tfiles)

C16_EncodeStep ==
    (cenc = NoEncode /\ cenc' # NoEncode /\ BadTable(cin'.table_name))
        => (IsError(cenc'.err) /\ cenc'.b = << >> /\ tfiles' = tfiles)

C16_DecodeStep ==
    (~cdec.called /\ cdec'.called /\ BadTable(cin.table_name))
        => (IsError(cdec'.err) /\ cdec'.res = << >> /\ tfiles' = tfiles)

ReadOps == { "read_all_structured_records", "get_all_raw_records" }

C12_Step ==
    (tops' = tops + 1 /\ tlast'.op \in ReadOps)
        => /\ tfiles' = tfiles
           /\ tlast'.again => (tlast'.out = tlast.out /\ tlast'.err = tlast.err)

C12_ReadsRepeatable == [][C12_Step]_vars

\* emp read a second time in a row, two records in it, while another
\* table's file is still missing
C12_Witness ==
    /\ tlast.op = "read_all_structured_records"
    /\ tlast.again
    /\ tlast.err = "ok"
    /\ Len(tlast.out) >= 2
    /\ \E fname \in TableFiles : ~tfiles[fname].exists

=============================================================================
